---- MODULE Spec2Model ----
(***************************************************************************)
(* Weather analysis dashboard (streamlit_app.py): the seasonal baseline,   *)
(* the centered rolling statistics, the anomaly rule, the normality test   *)
(* and the control flow of main().                                         *)
(*                                                                         *)
(* Numbers.  Temperatures are fixed-point integers in hundredths of a      *)
(* degree Celsius (2000 is 20.00).  A pandas/numpy float that may be NaN   *)
(* is a record [nan, v]; arithmetic on NaN gives NaN and every ordered     *)
(* comparison with NaN is FALSE, as IEEE-754 defines it.  Divisions and    *)
(* square roots round down to the hundredth.  The uploaded series carry    *)
(* no missing temperatures.                                                *)
(***************************************************************************)
EXTENDS Integers, Sequences, FiniteSets, TLC

VARIABLES
    data,           \* the uploaded CSV as read by pd.read_csv: a sequence of rows
    selected_city,  \* st.selectbox choice
    city_data,      \* the frame returned by process_data
    season_profile, \* city_data.groupby("season") mean/std, one row per season
    rendered,       \* the charts st.pyplot has drawn so far, in order
    api_key,        \* st.text_input value ("" while nothing was typed)
    response,       \* the HTTP response of the weather lookup, or NoResponse
    current_temp,   \* value returned by get_current_temperature_async
    season,         \* MONTH_TO_SEASON[now.month] of the run
    calls,          \* the arguments of every is_temperature_normal call so far
    normal,         \* the value is_temperature_normal returned
    written,        \* the classification sentence st.write printed
    fault,          \* the exception that ended the run, "" when none
    pc              \* position of main()

vars == <<data, selected_city, city_data, season_profile, rendered, api_key,
          response, current_temp, season, calls, normal, written, fault, pc>>

(***************************************************************************)
(* Bounds of the explored inputs.                                          *)
(***************************************************************************)
MaxN == 32          \* rows of the studied city in an uploaded file
MaxOther == 1       \* rows of the other city in an uploaded file

Window == 30        \* rolling(window=30, center=True)

Cities == {"A", "B"}

(***************************************************************************)
(* Floats with NaN.                                                        *)
(***************************************************************************)
NaN == [nan |-> TRUE, v |-> 0]
Num(x) == [nan |-> FALSE, v |-> x]

FSub(a, b) == IF a.nan \/ b.nan THEN NaN ELSE Num(a.v - b.v)
FAdd(a, b) == IF a.nan \/ b.nan THEN NaN ELSE Num(a.v + b.v)
FMul(k, a) == IF a.nan THEN NaN ELSE Num(k * a.v)
FLt(a, b) == ~a.nan /\ ~b.nan /\ a.v < b.v
FGt(a, b) == ~a.nan /\ ~b.nan /\ a.v > b.v
FLe(a, b) == ~a.nan /\ ~b.nan /\ a.v <= b.v

Min(a, b) == IF a < b THEN a ELSE b
Max(a, b) == IF a > b THEN a ELSE b

RECURSIVE SumSeq(_)
SumSeq(s) == IF s = <<>> THEN 0 ELSE Head(s) + SumSeq(Tail(s))

RECURSIVE SqrtIn(_, _, _)
\* the largest r in lo..hi with r*r <= x
SqrtIn(x, lo, hi) ==
    IF lo >= hi THEN lo
    ELSE LET mid == (lo + hi + 1) \div 2
         IN  IF mid * mid <= x THEN SqrtIn(x, mid, hi) ELSE SqrtIn(x, lo, mid - 1)

Sqrt(x) == SqrtIn(x, 0, Min(x, 40000))

SeqMean(w) == SumSeq(w) \div Len(w)

SqDev(w) == LET m == SeqMean(w) IN SumSeq([i \in 1..Len(w) |-> (w[i] - m) * (w[i] - m)])

\* pandas 'mean' aggregation of a group
GroupMean(w) == Num(SeqMean(w))

\* pandas 'std' aggregation of a group: sample standard deviation (ddof=1),
\* NaN for a group of one observation
GroupStd(w) == IF Len(w) < 2 THEN NaN ELSE Num(Sqrt(SqDev(w) \div (Len(w) - 1)))

\* np.nanmedian of a window without NaN
nanmedian(w) ==
    LET s == SortSeq(w, LAMBDA a, b : a < b)
        n == Len(w)
    IN  IF n % 2 = 1 THEN Num(s[(n + 1) \div 2])
        ELSE Num((s[n \div 2] + s[n \div 2 + 1]) \div 2)

\* np.nanstd of a window without NaN: population standard deviation (ddof=0)
nanstd(w) == Num(Sqrt(SqDev(w) \div Len(w)))

(***************************************************************************)
(* Frames: sequences of rows.                                              *)
(***************************************************************************)
\* df[df["city"] == c]: the rows of city c, in frame order
CityRows(df, c) == SelectSeq(df, LAMBDA r : r.city = c)

\* the rows of the group (city c, season s), in frame order
GroupRows(df, c, s) == SelectSeq(df, LAMBDA r : r.city = c /\ r.season = s)

\* the temperature column of a frame
Temps(df) == [k \in 1..Len(df) |-> df[k].temperature]

\* the rows a centered window takes for position i of a series of n rows:
\* i-15 .. i+14, clipped to the series
WindowBounds(i, n) ==
    LET offset == (Window - 1) \div 2
    IN  [lo |-> Max(i + offset - Window + 1, 1), hi |-> Min(i + offset, n)]

\* a window one row short still counted as complete
CompleteOffByOne(b) == b.hi - b.lo + 1 >= Window - 1

\* min_periods defaults to the window: a window of fewer rows gives NaN
Complete(b) == b.hi - b.lo + 1 >= Window

\* the function handed to .apply(), by name
Apply(f, w) == IF f = "nanmedian" THEN nanmedian(w) ELSE nanstd(w)

\* x.rolling(window=30, center=True).apply(f)
Rolling(x, f) ==
    [i \in 1..Len(x) |->
        LET b == WindowBounds(i, Len(x))
        IN  IF Complete(b) THEN Apply(f, SubSeq(x, b.lo, b.hi)) ELSE NaN]

\* the rolling statistic taken over the rows of the frame, whatever their city
RollingAllRows(df, f) ==
    [i \in 1..Len(df) |-> Rolling(Temps(df), f)[i]]

\* df.groupby("city")["temperature"].transform(lambda x: x.rolling(...).apply(f)):
\* the value for row i is the rolling value at its rank among its city's rows
RollingByCity(df, f) ==
    [i \in 1..Len(df) |->
        LET rank == Len(CityRows(SubSeq(df, 1, i), df[i].city))
        IN  Rolling(Temps(CityRows(df, df[i].city)), f)[rank]]

\* df.groupby(['city', 'season'])['temperature'].agg(['mean', 'std']), renamed:
\* one entry per (city, season) pair that has rows
seasonal_stats(df) ==
    [g \in {<<df[i].city, df[i].season>> : i \in 1..Len(df)} |->
        LET w == Temps(GroupRows(df, g[1], g[2]))
        IN  [seasonal_mean |-> GroupMean(w), seasonal_std |-> GroupStd(w)]]

\* the anomaly rule with the bounds themselves counted as anomalous
AnomalyInclusive(t, avg, std) ==
    \/ FLe(Num(t), FSub(avg, FMul(2, std)))
    \/ FLe(FAdd(avg, FMul(2, std)), Num(t))

\* (temperature < temp_m_avg - 2 * temp_m_std) | (temperature > temp_m_avg + 2 * temp_m_std)
Anomaly(t, avg, std) ==
    \/ FLt(Num(t), FSub(avg, FMul(2, std)))
    \/ FGt(Num(t), FAdd(avg, FMul(2, std)))

\* process_data with the rolling statistics taken over the whole frame
process_data_all_rows(df) ==
    LET stats == seasonal_stats(df)
        temp_m_avg == RollingAllRows(df, "nanmedian")
        temp_m_std == RollingAllRows(df, "nanstd")
    IN  [i \in 1..Len(df) |->
            LET st == stats[<<df[i].city, df[i].season>>]
                avg == temp_m_avg[i]
                std == temp_m_std[i]
            IN  [city |-> df[i].city,
                 timestamp |-> df[i].timestamp,
                 temperature |-> df[i].temperature,
                 season |-> df[i].season,
                 seasonal_mean |-> st.seasonal_mean,
                 seasonal_std |-> st.seasonal_std,
                 temp_m_avg |-> avg,
                 temp_m_std |-> std,
                 anomaly |-> Anomaly(df[i].temperature, avg, std)]]

process_data(df) ==
    LET stats == seasonal_stats(df)
        temp_m_avg == RollingByCity(df, "nanmedian")
        temp_m_std == RollingByCity(df, "nanstd")
    IN  [i \in 1..Len(df) |->
            LET st == stats[<<df[i].city, df[i].season>>]
                avg == temp_m_avg[i]
                std == temp_m_std[i]
            IN  [city |-> df[i].city,
                 timestamp |-> df[i].timestamp,
                 temperature |-> df[i].temperature,
                 season |-> df[i].season,
                 seasonal_mean |-> st.seasonal_mean,
                 seasonal_std |-> st.seasonal_std,
                 temp_m_avg |-> avg,
                 temp_m_std |-> std,
                 anomaly |-> Anomaly(df[i].temperature, avg, std)]]

(***************************************************************************)
(* The uploaded files that are explored.  A file holds n rows of city A,   *)
(* one per day 1..n, and m rows of city B.                                 *)
(***************************************************************************)
Shapes == {"flat", "cycle", "spike", "band"}
Layouts == {"year", "short"}
Orders == {"asc", "desc"}

\* temperature of city A on day t
ShapeTemp(shape, t) ==
    CASE shape = "flat" -> 2000
      [] shape = "cycle" -> 1800 + 200 * ((t - 1) % 3)
      [] shape = "spike" -> IF t = 16 THEN 3500 ELSE 1800 + 200 * ((t - 1) % 3)
      [] shape = "band" ->
            IF t = 16 THEN 2400
            ELSE IF t <= 14 THEN 1800
            ELSE IF t <= 18 THEN 2000
            ELSE IF t <= 30 THEN 2200
            ELSE 2000

\* season column of city A on day t
LayoutSeason(layout, t) ==
    CASE layout = "year" ->
            IF t <= 8 THEN "winter" ELSE IF t <= 16 THEN "spring"
            ELSE IF t <= 24 THEN "summer" ELSE "autumn"
      [] layout = "short" ->
            IF t <= 3 THEN "winter" ELSE IF t = 4 THEN "spring" ELSE "summer"

\* the day found at position k of a file of n rows
OrderDay(order, n, k) ==
    CASE order = "asc" -> k
      [] order = "desc" -> n + 1 - k

RowA(shape, layout, t) ==
    [city |-> "A", timestamp |-> t, temperature |-> ShapeTemp(shape, t),
     season |-> LayoutSeason(layout, t)]

RowB(t, temp) ==
    [city |-> "B", timestamp |-> t, temperature |-> temp, season |-> "autumn"]

OtherTemps == {500, 900}

RowsA(n, shape, layout, order) ==
    [k \in 1..n |-> RowA(shape, layout, OrderDay(order, n, k))]

RowsB(m) == [k \in 1..m |-> RowB(k, 500)]

\* the other city's rows come first in the file
InputsOf(ns, ms) ==
    {RowsB(m) \o RowsA(n, shape, layout, order) :
        n \in ns, shape \in Shapes, layout \in Layouts, order \in Orders, m \in ms}

Inputs == InputsOf(1..MaxN, 0..MaxOther)

(***************************************************************************)
(* The weather lookup and the normality test.                              *)
(***************************************************************************)
None == [none |-> TRUE, v |-> 0]
Some(x) == [none |-> FALSE, v |-> x]

\* Python truthiness of the lookup result: None, 0 and 0.0 are falsy
Truthy(x) == ~x.none /\ x.v # 0

NoResponse == [status |-> 0, temp |-> 0]
Statuses == {200, 401}
ApiTemps == {-500, 0, 1590, 1600, 2400, 2410}
Responses == [status : Statuses, temp : ApiTemps]

\* a lookup that hands the body's number back whatever the status
get_current_temperature_any_status(resp) == Some(resp.temp)

\* get_current_temperature_async: None unless the status is 200
get_current_temperature_async(resp) ==
    IF resp.status # 200 THEN None ELSE Some(resp.temp)

MONTH_TO_SEASON ==
    [m \in 1..12 |->
        IF m \in {12, 1, 2} THEN "winter"
        ELSE IF m \in {3, 4, 5} THEN "spring"
        ELSE IF m \in {6, 7, 8} THEN "summer"
        ELSE "autumn"]

\* data[(data['city'] == c) & (data['season'] == s)]
Matching(df, c, s) == GroupRows(df, c, s)

\* the normality test with both bounds excluded
is_temperature_normal_strict(df, c, t, s) ==
    LET rows == Matching(df, c, s)
    IN  IF rows = <<>> THEN [raised |-> "IndexError", value |-> FALSE]
        ELSE LET seasonal_mean == rows[1].seasonal_mean
                 seasonal_std == rows[1].seasonal_std
             IN  [raised |-> "",
                  value |-> /\ FLt(FSub(seasonal_mean, FMul(2, seasonal_std)), Num(t))
                            /\ FLt(Num(t), FAdd(seasonal_mean, FMul(2, seasonal_std)))]

\* is_temperature_normal: .values[0] of an empty selection raises IndexError;
\* otherwise the chained comparison, FALSE as soon as a side is NaN
is_temperature_normal(df, c, t, s) ==
    LET rows == Matching(df, c, s)
    IN  IF rows = <<>> THEN [raised |-> "IndexError", value |-> FALSE]
        ELSE LET seasonal_mean == rows[1].seasonal_mean
                 seasonal_std == rows[1].seasonal_std
             IN  [raised |-> "",
                  value |-> /\ FLe(FSub(seasonal_mean, FMul(2, seasonal_std)), Num(t))
                            /\ FLe(Num(t), FAdd(seasonal_mean, FMul(2, seasonal_std)))]

\* city_data.groupby("season")["temperature"].agg(["mean", "std"]).reset_index():
\* one row per season of the frame, in the sorted order of the season names
SeasonOrder == <<"autumn", "spring", "summer", "winter">>

SeasonProfile(df) ==
    LET present == SelectSeq(SeasonOrder, LAMBDA s : \E i \in 1..Len(df) : df[i].season = s)
    IN  [k \in 1..Len(present) |->
            LET w == Temps(SelectSeq(df, LAMBDA r : r.season = present[k]))
            IN  [season |-> present[k], mean |-> GroupMean(w), std |-> GroupStd(w)]]

\* data["city"].unique() and data["season"].unique()
UniqueCities(df) == {df[i].city : i \in 1..Len(df)}
UniqueSeasons(df) == {df[i].season : i \in 1..Len(df)}

Empty == <<>>

(***************************************************************************)
(* main(), one run of the script.                                          *)
(***************************************************************************)
Init ==
    /\ data = Empty
    /\ selected_city = ""
    /\ city_data = Empty
    /\ season_profile = Empty
    /\ rendered = Empty
    /\ api_key = ""
    /\ response = NoResponse
    /\ current_temp = None
    /\ season = ""
    /\ calls = Empty
    /\ normal = FALSE
    /\ written = ""
    /\ fault = ""
    /\ pc = "start"

\* lines 57-61: a file is uploaded and read
Upload ==
    /\ pc = "start"
    /\ \E f \in Inputs : data' = f
    /\ pc' = "select"
    /\ UNCHANGED <<selected_city, city_data, season_profile, rendered, api_key,
                   response, current_temp, season, calls, normal, written, fault>>

\* lines 63-66: the city is chosen, its rows are filtered and processed
Process ==
    /\ pc = "select"
    /\ \E c \in UniqueCities(data) :
          /\ selected_city' = c
          /\ city_data' = process_data(CityRows(data, c))
    /\ pc' = "series"
    /\ UNCHANGED <<data, season_profile, rendered, api_key, response, current_temp,
                   season, calls, normal, written, fault>>

\* lines 68-78: the temperature series chart
PlotSeries ==
    /\ pc = "series"
    /\ rendered' = Append(rendered, "series")
    /\ pc' = "anomalies"
    /\ UNCHANGED <<data, selected_city, city_data, season_profile, api_key, response,
                   current_temp, season, calls, normal, written, fault>>

\* lines 80-92: the anomaly chart
PlotAnomalies ==
    /\ pc = "anomalies"
    /\ rendered' = Append(rendered, "anomalies")
    /\ pc' = "profile"
    /\ UNCHANGED <<data, selected_city, city_data, season_profile, api_key, response,
                   current_temp, season, calls, normal, written, fault>>

\* lines 94-123: the seasonal profile; plt.xticks raises ValueError when the
\* file holds more seasons than the chosen city has
PlotProfile ==
    /\ pc = "profile"
    /\ season_profile' = SeasonProfile(city_data)
    /\ IF Cardinality(UniqueSeasons(data)) # Len(SeasonProfile(city_data))
       THEN /\ fault' = "ValueError"
            /\ pc' = "done"
            /\ UNCHANGED rendered
       ELSE /\ rendered' = Append(rendered, "profile")
            /\ pc' = "key"
            /\ UNCHANGED fault
    /\ UNCHANGED <<data, selected_city, city_data, api_key, response, current_temp,
                   season, calls, normal, written>>

\* lines 125-128: the API key field; the run ends when it is empty
AskKey ==
    /\ pc = "key"
    /\ \E k \in {"", "key"} :
          /\ api_key' = k
          /\ pc' = IF k = "" THEN "done" ELSE "lookup"
    /\ UNCHANGED <<data, selected_city, city_data, season_profile, rendered, response,
                   current_temp, season, calls, normal, written, fault>>

\* lines 129-131 (and 20-32): the lookup; the run ends on a falsy result
Lookup ==
    /\ pc = "lookup"
    /\ \E r \in Responses :
          /\ response' = r
          /\ current_temp' = get_current_temperature_async(r)
          /\ pc' = IF Truthy(get_current_temperature_async(r)) THEN "classify" ELSE "done"
    /\ UNCHANGED <<data, selected_city, city_data, season_profile, rendered, api_key,
                   season, calls, normal, written, fault>>

\* lines 133-175: the current season, the classification and its chart
Classify ==
    /\ pc = "classify"
    /\ \E month \in 1..12 :
          LET s == MONTH_TO_SEASON[month]
              r == is_temperature_normal(city_data, selected_city, current_temp.v, s)
          IN  /\ season' = s
              /\ calls' = Append(calls, <<selected_city, current_temp.v, s>>)
              /\ IF r.raised # ""
                 THEN /\ fault' = r.raised
                      /\ UNCHANGED <<normal, written, rendered>>
                 ELSE /\ normal' = r.value
                      /\ written' = IF r.value THEN "normal" ELSE "not normal"
                      /\ rendered' = Append(rendered, "classification")
                      /\ UNCHANGED fault
    /\ pc' = "done"
    /\ UNCHANGED <<data, selected_city, city_data, season_profile, api_key, response,
                   current_temp>>

Next ==
    \/ Upload
    \/ Process
    \/ PlotSeries
    \/ PlotAnomalies
    \/ PlotProfile
    \/ AskKey
    \/ Lookup
    \/ Classify

Spec == Init /\ [][Next]_vars

(***************************************************************************)
(* process_data on a whole collection of two cities, re-run after each     *)
(* edit of city B's rows.                                                  *)
(***************************************************************************)
EngineInputs == InputsOf((Window - 1)..MaxN, {0})

CountB(df) == Len(CityRows(df, "B"))

\* the smallest day city B has no row for
FreeDayB(df) ==
    CHOOSE t \in 1..(Len(df) + 1) :
        /\ \A i \in 1..Len(df) : df[i].city = "B" => df[i].timestamp # t
        /\ \A u \in 1..(t - 1) : \E i \in 1..Len(df) : df[i].city = "B" /\ df[i].timestamp = u

RemoveAt(df, i) == SubSeq(df, 1, i - 1) \o SubSeq(df, i + 1, Len(df))

EngineInit ==
    /\ data \in EngineInputs
    /\ city_data = process_data(data)
    /\ selected_city = ""
    /\ season_profile = Empty
    /\ rendered = Empty
    /\ api_key = ""
    /\ response = NoResponse
    /\ current_temp = None
    /\ season = ""
    /\ calls = Empty
    /\ normal = FALSE
    /\ written = ""
    /\ fault = ""
    /\ pc = "engine"

EngineRest ==
    UNCHANGED <<selected_city, season_profile, rendered, api_key, response, current_temp,
                season, calls, normal, written, fault, pc>>

\* a row of city B is added before or after the other rows
AddOther ==
    /\ CountB(data) < MaxOther
    /\ \E temp \in OtherTemps, front \in BOOLEAN :
          LET row == RowB(FreeDayB(data), temp)
          IN  data' = IF front THEN <<row>> \o data ELSE Append(data, row)
    /\ city_data' = process_data(data')
    /\ EngineRest

\* a row of city B is removed
RemoveOther ==
    /\ \E i \in 1..Len(data) :
          /\ data[i].city = "B"
          /\ data' = RemoveAt(data, i)
    /\ city_data' = process_data(data')
    /\ EngineRest

\* the temperature of a row of city B is changed
ChangeOther ==
    /\ \E i \in 1..Len(data), temp \in OtherTemps :
          /\ data[i].city = "B"
          /\ data[i].temperature # temp
          /\ data' = [data EXCEPT ![i].temperature = temp]
    /\ city_data' = process_data(data')
    /\ EngineRest

EngineNext ==
    \/ AddOther
    \/ RemoveOther
    \/ ChangeOther

EngineSpec == EngineInit /\ [][EngineNext]_vars

(***************************************************************************)
(* Properties.                                                             *)
(***************************************************************************)
\* process_data has returned in this run of main()
Processed == pc \notin {"start", "select", "engine"}

\* is_temperature_normal was called and returned a boolean
Classified == pc = "done" /\ calls # Empty /\ fault = ""

HasRolling(r) == ~r.temp_m_avg.nan /\ ~r.temp_m_std.nan
HasBaseline(r) == ~r.seasonal_mean.nan /\ ~r.seasonal_std.nan

DefinedPositions == {i \in 1..Len(city_data) : HasRolling(city_data[i])}

\* the rows of the processed frame the normality test selects
SeasonRows == {i \in 1..Len(city_data) : city_data[i].season = season}

SortByTime(df) == SortSeq(df, LAMBDA a, b : a.timestamp < b.timestamp)

\* C1: with a defined seasonal baseline (mean, std), is_temperature_normal
\* returns true iff mean - 2*std <= t <= mean + 2*std, both bounds included;
\* for mean 20.00 and std 2.00 the readings 16.00 and 24.00 are normal and
\* 15.90 and 24.10 are not.
C1_NormalIffInsideBand ==
    Classified =>
        \A i \in SeasonRows :
            LET r == city_data[i]
                t == current_temp.v
            IN  HasBaseline(r) =>
                    /\ normal <=> /\ r.seasonal_mean.v - 2 * r.seasonal_std.v <= t
                                  /\ t <= r.seasonal_mean.v + 2 * r.seasonal_std.v
                    /\ (r.seasonal_mean.v = 2000 /\ r.seasonal_std.v = 200) =>
                          /\ t \in {1600, 2400} => normal
                          /\ t \in {1590, 2410} => ~normal

C1_Witness ==
    /\ Classified
    /\ normal
    /\ written = "normal"
    /\ current_temp.v = 1600
    /\ \E i \in SeasonRows :
          /\ city_data[i].seasonal_mean = Num(2000)
          /\ city_data[i].seasonal_std = Num(200)

\* C2: a processed row is flagged anomalous iff its rolling baseline is
\* defined and its temperature lies strictly outside
\* [temp_m_avg - 2*temp_m_std, temp_m_avg + 2*temp_m_std]; a temperature on a
\* bound and a row without a rolling baseline are flagged false.
C2_AnomalyIffOutsideBand ==
    Processed =>
        \A i \in 1..Len(city_data) :
            LET r == city_data[i]
            IN  r.anomaly <=>
                    /\ HasRolling(r)
                    /\ \/ r.temperature < r.temp_m_avg.v - 2 * r.temp_m_std.v
                       \/ r.temperature > r.temp_m_avg.v + 2 * r.temp_m_std.v

C2_Witness ==
    /\ Processed
    /\ \E i, j \in 1..Len(city_data) :
          /\ HasRolling(city_data[i])
          /\ city_data[i].temp_m_std.v > 0
          /\ city_data[i].temperature
                = city_data[i].temp_m_avg.v + 2 * city_data[i].temp_m_std.v
          /\ ~city_data[i].anomaly
          /\ ~HasRolling(city_data[j])
          /\ ~city_data[j].anomaly

\* C3: a city with N rows gets a defined rolling baseline at exactly N - 29
\* positions when N >= 30 and at none when N < 30; the defined positions are
\* contiguous, and center and dispersion are defined together.
C3_WindowCompleteness ==
    Processed =>
        LET N == Len(city_data)
        IN  /\ \A i \in 1..N : city_data[i].temp_m_avg.nan <=> city_data[i].temp_m_std.nan
            /\ Cardinality(DefinedPositions) = IF N >= 30 THEN N - 29 ELSE 0
            /\ \A i, k \in DefinedPositions : \A j \in i..k : j \in DefinedPositions

C3_Witness ==
    /\ Processed
    /\ Len(city_data) = 31
    /\ Cardinality(DefinedPositions) = 2
    /\ 1 \notin DefinedPositions
    /\ 31 \notin DefinedPositions

\* C4: a normality test for a season the city has no row of fails with an
\* explicit "baseline unavailable" condition.
C4_BaselineUnavailable ==
    (pc = "done" /\ calls # Empty /\ SeasonRows = {}) => fault = "BaselineUnavailable"

\* C5: when the lookup answers with a non-success status, the result is None,
\* is_temperature_normal is never called in the run, and the series chart,
\* the anomaly chart and the seasonal profile were drawn before the lookup.
C5_FailedLookupSkipsClassification ==
    response.status \notin {NoResponse.status, 200} =>
        /\ current_temp = None
        /\ pc = "done"
        /\ calls = Empty
        /\ written = ""
        /\ rendered = <<"series", "anomalies", "profile">>

C5_Witness ==
    /\ response.status = 401
    /\ pc = "done"
    /\ calls = Empty
    /\ rendered = <<"series", "anomalies", "profile">>

\* C6: every row gets the rolling baseline and anomaly flag it gets when the
\* city's rows are supplied in ascending timestamp order.
C6_OrderIndependent ==
    pc = "series" =>
        LET sorted == process_data(SortByTime(CityRows(data, selected_city)))
        IN  \A i \in 1..Len(city_data) : \A j \in 1..Len(sorted) :
                city_data[i].timestamp = sorted[j].timestamp =>
                    /\ city_data[i].temp_m_avg = sorted[j].temp_m_avg
                    /\ city_data[i].temp_m_std = sorted[j].temp_m_std
                    /\ city_data[i].anomaly = sorted[j].anomaly

\* C7: between two runs of process_data whose inputs hold the same rows of a
\* city, every processed row of that city (seasonal baseline, rolling
\* baseline, anomaly flag) is the same, whatever happened to the other
\* city's rows.
C7_PerCityIsolation ==
    [][\A c \in Cities :
          CityRows(data', c) = CityRows(data, c) =>
              CityRows(city_data', c) = CityRows(city_data, c)]_vars

C7_Witness ==
    /\ pc = "engine"
    /\ data[1].city = "B"
    /\ data[1].temperature = 900
    /\ \E i \in 1..Len(city_data) :
          /\ city_data[i].city = "A"
          /\ HasRolling(city_data[i])
          /\ city_data[i].anomaly

\* C8: whenever is_temperature_normal returns a boolean, the seasonal mean
\* and the seasonal std it compared against are both defined.
C8_NoUndefinedBaseline ==
    Classified => \A i \in SeasonRows : HasBaseline(city_data[i])

\* C9: at every position with a full window of 30 rows the center statistic
\* is the arithmetic mean of the window and the dispersion statistic its
\* sample standard deviation.
C9_MeanBasedWindow ==
    pc = "series" =>
        \A i \in 1..Len(city_data) :
            (i - 15 >= 1 /\ i + 14 <= Len(city_data)) =>
                LET w == Temps(SubSeq(city_data, i - 15, i + 14))
                IN  /\ city_data[i].temp_m_avg = GroupMean(w)
                    /\ city_data[i].temp_m_std = GroupStd(w)

\* C10: a run with an API key and a lookup answered with status 200 ends with
\* is_temperature_normal called on the returned temperature and a
\* classification sentence written.
C10_SuccessIsClassified ==
    (pc = "done" /\ api_key # "" /\ response.status = 200) =>
        /\ calls = <<<<selected_city, response.temp, season>>>>
        /\ written \in {"normal", "not normal"}

====
